---------------------------- MODULE Spec2Model ----------------------------
(***************************************************************************)
(* A model of gunge's event dispatcher (event.py: Manager, Binder,         *)
(* Handler) and of its fixed-timestep clock (clock.py: Clock).             *)
(*                                                                         *)
(* Time is counted in integer units of half a tick (tick = 1/tps seconds   *)
(* is Resolution \div tps = 2 units), so that the float arithmetic of      *)
(* Clock.update is exact rational arithmetic in the model.                 *)
(***************************************************************************)
EXTENDS Integers, Sequences, FiniteSets, TLC

(* ------------------------------ bounds -------------------------------- *)
MaxExt == 2
MaxIter == 2
MaxAgain == 2
MaxBinds == 2
MaxDelta == 1
MaxDeltas == 3
MaxFeed == 5
MaxSwaps == 102
MaxNow == 8
\* the longest history of pops kept: a batch with every event dispatched again
MaxLog == MaxExt + 3 + MaxAgain

(* --------------------------- event.py names --------------------------- *)
QUIT == "QUIT"
UPDATE == "UPDATE"
RENDER == "RENDER"
BUFSWAP == "BUFSWAP"
USEREVENT == "USEREVENT"
EventTypes == {QUIT, UPDATE, RENDER, BUFSWAP, USEREVENT}

HANDLE_AGAIN == -1
HANDLE_STOP == -2
\* a callback that falls off its end, or returns nothing, returns None
None == 0
Codes == {None, HANDLE_AGAIN, HANDLE_STOP}

(* ------------------------------ handlers ------------------------------ *)
\* the Binders the bind decorator creates and registers when gunge is imported
MethodBinders ==
    {"Clock.update", "Clock.bufswap", "Display.render", "Display.buffer_swap",
     "Sprite.update", "Sprite.render"}
\* a Handler class of the program, Mob, whose bound update method may kill or
\* drop another object; its Binder is made when the class body is executed
UserMethodBinders == {"Mob.update"}
\* free functions of the program decorated with bind(USEREVENT, attr_filter),
\* in the order the program's module defines them
UserModule == << "on_key", "on_keys", "on_odd", "on_key_mod", "on_user" >>
FunctionBinders == { UserModule[k] : k \in DOMAIN UserModule }
Binders == MethodBinders \cup UserMethodBinders \cup FunctionBinders
\* plain callables given to Manager.bind with an explicit event type
RawCallbacks == {"f1", "f2"}
\* the event types the program binds them to
BindTypes == {QUIT, UPDATE, USEREVENT}
on_quit == "on_quit"

BinderType(b) ==
    CASE b = "Clock.update" -> UPDATE
      [] b = "Clock.bufswap" -> BUFSWAP
      [] b = "Display.render" -> RENDER
      [] b = "Display.buffer_swap" -> BUFSWAP
      [] b = "Sprite.update" -> UPDATE
      [] b = "Sprite.render" -> RENDER
      [] b = "Mob.update" -> UPDATE
      [] b \in FunctionBinders -> USEREVENT

\* the values the key attribute of a user event takes
Keys == {1, 2}

\* the attr_filter of each Binder, each value with the kind filter_check tells
\* by its type: the decorators of the package give none; the program's are
\*   on_key      {'key': 1}
\*   on_keys     {'key': set([2, 3])}
\*   on_odd      {'key': lambda k: k % 2}
\*   on_key_mod  {'key': 1, 'mod': 0}
\*   on_user     {}
BinderFilter(b) ==
    CASE b = "on_key" -> ("key" :> [ kind |-> "value", v |-> 1 ])
      [] b = "on_keys" -> ("key" :> [ kind |-> "set", v |-> {2, 3} ])
      [] b = "on_odd" -> ("key" :> [ kind |-> "function", v |-> [ k \in Keys |-> k % 2 # 0 ] ])
      [] b = "on_key_mod" -> ("key" :> [ kind |-> "value", v |-> 1 ])
                             @@ ("mod" :> [ kind |-> "value", v |-> 0 ])
      [] OTHER -> <<>>

(* ----------------------------- instances ------------------------------ *)
Sprites == {"s1", "s2"}
Mobs == {"m1", "m2"}
Instances == {"clock", "display"} \cup Sprites \cup Mobs
\* what a dead weak reference returns when called
NoOwner == "None"

\* the Binders of the bound methods of an instance's class
BindersOf(i) ==
    CASE i = "clock" -> {"Clock.update", "Clock.bufswap"}
      [] i = "display" -> {"Display.render", "Display.buffer_swap"}
      [] i \in Mobs -> {"Mob.update"}
      [] OTHER -> {"Sprite.update", "Sprite.render"}

(* -------------------------------- time -------------------------------- *)
tps == 25
Resolution == 2 * tps
tick == Resolution \div tps


(* ------------------------------- events ------------------------------- *)
NoAttrs == [x \in {} |-> None]
Event(t, attrs, id) == [type |-> t, attrs |-> attrs, id |-> id]
NoEvent == Event("-", NoAttrs, 0)

\* mainloop's exit_events: the same three event objects in every iteration
exit_events ==
    << Event(UPDATE, NoAttrs, 0),
       Event(RENDER, ("interpolate" :> "clock.interpolate") @@ ("display" :> "display"), 0),
       Event(BUFSWAP, NoAttrs, 0) >>

\* what pygame.event.get() may hand out: a native QUIT, or a user event
\* posted with a key attribute
ExtKinds ==
    { [type |-> QUIT, attrs |-> NoAttrs],
      [type |-> USEREVENT, attrs |-> ("key" :> 1) @@ ("mod" :> 0)],
      [type |-> USEREVENT, attrs |-> ("key" :> 2) @@ ("mod" :> 0)] }

(* ------------------------------- state -------------------------------- *)
VARIABLES
    handlers,     \* Manager.handlers: event type -> list of handlers
    keeprunning,  \* Manager.keeprunning (set on entry of mainloop)
    events,       \* mainloop's local list of pending events
    event,        \* mainloop's local: the event being dispatched
    hidx,         \* position of the for loop in the handler list (1-based)
    a,            \* mainloop's local: what the last handler call returned
    pc,           \* "setup", "loop", "pop", "dispatch", "crashed"
    err,          \* the exception that ended the program, "" if none
    instances,    \* Binder.instances of each method Binder: weak references
    alive,        \* the Handler instances that are still referenced
    clock,        \* the attributes of gunge.locals.clock
    now,          \* the last reading of the wall clock (get_time)
    iter,         \* loop iterations begun (bounded by MaxIter)
    nagain,       \* HANDLE_AGAIN results received (counted up to MaxAgain)
    nbinds,       \* Manager.bind calls made by the program (bounded by MaxBinds)
    passLog,      \* history: the handler calls of the current pass over event
    iterLog,      \* history: the events popped since the last poll, up to MaxLog
    polled,       \* history: the batch as built by the last poll
    killed,       \* history: the instances kill() was called on
    call,         \* the frame of Binder.method_call when run target by target
    hist          \* history: counters kept about the clock since start()

vars == << handlers, keeprunning, events, event, hidx, a, pc, err, instances,
           alive, clock, now, iter, nagain, nbinds, passLog, iterLog, polled,
           killed, call, hist >>

(* ---------------------------- Clock (clock.py) ------------------------ *)
\* Clock.__init__; the attributes start() creates are absent until then, which
\* the model keeps as zeros that are never read while started is FALSE.
\* interpolate is kept as a numerator over tick: 1.0 is tick.
ClockInit ==
    [ started |-> FALSE, interpolate |-> tick,
      clock_time |-> 0, since_last_render |-> 0,
      time |-> 0, game_time |-> 0, game_latency |-> 0, last_update |-> 0,
      frame_count |-> 0, frame_rate |-> 0, average_framerate |-> 0 ]

\* Clock.start, with the two readings of get_time it makes
start(c, t1, t2) ==
    [ c EXCEPT !.clock_time = t1, !.since_last_render = t2,
               !.time = 0, !.game_time = 0, !.game_latency = 0, !.last_update = 0,
               !.frame_count = 0, !.frame_rate = 0, !.average_framerate = 0,
               !.started = TRUE ]

\* (mutant) an update granted whatever the latency
Warranted_Always(game_latency) == TRUE

\* the test of Clock.update: is an update warranted at this latency
Warranted(game_latency) == game_latency - tick > 0

\* Clock.update past its started test, with time_now read from get_time:
\* the new attributes and the value returned
update(c, time_now) ==
    LET time_passed == time_now - c.clock_time
        c1 == [ c EXCEPT !.clock_time = time_now,
                         !.time = c.time + time_passed,
                         !.game_latency = c.game_latency + time_passed ]
    IN  IF Warranted(c1.game_latency)
        THEN [ clock |-> [ c1 EXCEPT !.game_latency = c1.game_latency - tick,
                                     !.game_time = c1.game_time + tick ],
               ret |-> HANDLE_AGAIN ]
        ELSE [ clock |-> [ c1 EXCEPT !.interpolate = c1.time - c1.game_time ],
               ret |-> HANDLE_STOP ]

\* (mutant) a window that is closed by its 100th sample
WindowFull_At100(frame_count) == frame_count >= 100

\* the window test of Clock.bufswap on the incremented frame_count
WindowFull(frame_count) == frame_count > 100

\* Clock.bufswap for time_passed > 0; frame rates are kept as whole frames per
\* second (Resolution units make a second)
bufswap(c, time_now) ==
    LET time_passed == time_now - c.since_last_render
        rate == Resolution \div time_passed
        avg == (c.average_framerate * c.frame_count + rate) \div (c.frame_count + 1)
        n == c.frame_count + 1
    IN  [ c EXCEPT !.since_last_render = time_now,
                   !.frame_rate = rate,
                   !.average_framerate = avg,
                   !.frame_count = IF WindowFull(n) THEN 0 ELSE n ]

(* --------------------------- Binder (event.py) ------------------------ *)
\* (mutant) a filter that matches when some entry holds
filter_check_Any(b, e) ==
    \E key \in DOMAIN BinderFilter(b) :
        LET value == BinderFilter(b)[key]
            event_key == e.attrs[key]
        IN  CASE value.kind = "set" -> event_key \in value.v
              [] value.kind = "function" -> value.v[event_key]
              [] OTHER -> value.v = event_key

\* Binder.filter_check: every filter entry holds of the event's attribute
filter_check(b, e) ==
    \A key \in DOMAIN BinderFilter(b) :
        LET value == BinderFilter(b)[key]
            event_key == e.attrs[key]
        IN  CASE value.kind = "set" -> event_key \in value.v
              [] value.kind = "function" -> value.v[event_key]
              [] OTHER -> value.v = event_key

\* line 120 of method_call: the weak references that are still alive
Prune(refs, live) == SelectSeq(refs, LAMBDA x : x \in live)

\* what Binder.__call__ hands back to its caller
BinderReturn(last) == None

\* (mutant) kill with its test inverted: only the killed object stays
Revoke_Inverted(refs, self) == SelectSeq(refs, LAMBDA x : x = self)

\* Handler.kill on one Binder's list: the references to other objects stay
Revoke(refs, self) == SelectSeq(refs, LAMBDA x : x # self)

(* --------------------------- Manager (event.py) ----------------------- *)
\* self.handlers.get(event.type, [])
HandlerList(h, t) == IF t \in DOMAIN h THEN h[t] ELSE <<>>

\* (mutant) bind that puts the handler in front of those registered before
bind_Front(h, handler, event_type) ==
    [ t \in DOMAIN h \cup {event_type} |->
        IF t = event_type THEN <<handler>> \o HandlerList(h, t) ELSE h[t] ]

\* (mutant) bind that registers the handler twice
bind_Twice(h, handler, event_type) ==
    [ t \in DOMAIN h \cup {event_type} |->
        IF t = event_type THEN HandlerList(h, t) \o << handler, handler >> ELSE h[t] ]

\* Manager.bind
bind(h, handler, event_type) ==
    [ t \in DOMAIN h \cup {event_type} |->
        IF t = event_type THEN Append(HandlerList(h, t), handler) ELSE h[t] ]

\* (mutant) remove that takes every occurrence out
Remove_All(list, x) == SelectSeq(list, LAMBDA y : y # x)

\* list.remove(x) on a list that holds x: the first occurrence goes
Remove(list, x) ==
    LET k == CHOOSE j \in DOMAIN list :
                 list[j] = x /\ \A i \in 1 .. j - 1 : list[i] # x
    IN  SubSeq(list, 1, k - 1) \o SubSeq(list, k + 1, Len(list))

\* Manager.unbind: the registry afterwards and the exception raised ("" if
\* none): self.handlers[event_type] raises KeyError for a type that was never
\* bound, list.remove raises ValueError for a handler that is not in the list
unbind(h, handler, event_type) ==
    IF event_type \notin DOMAIN h
    THEN [ handlers |-> h, err |-> "KeyError" ]
    ELSE IF \A k \in DOMAIN h[event_type] : h[event_type][k] # handler
    THEN [ handlers |-> h, err |-> "ValueError" ]
    ELSE [ handlers |-> [ h EXCEPT ![event_type] = Remove(@, handler) ], err |-> "" ]

\* (mutant) the event taken from the front of the list
PopEvent_Front(evs) == evs[1]

\* events.pop(): the event it returns, and the list it leaves
PopEvent(evs) == evs[Len(evs)]
PopRest(evs) == SubSeq(evs, 1, Len(evs) - 1)

\* (mutants) a for loop that HANDLE_STOP does not leave, and one that
\* HANDLE_AGAIN leaves too
Breaks_Never(ret) == FALSE
Breaks_OnAgainToo(ret) == ret \in {HANDLE_STOP, HANDLE_AGAIN}

\* mainloop, lines 65-66: HANDLE_STOP breaks out of the for loop
Breaks(ret) == ret = HANDLE_STOP

\* mainloop, lines 67-68: HANDLE_AGAIN puts the event back at index 0
Reinsert(ret, e, evs) ==
    IF ret # HANDLE_STOP /\ ret = HANDLE_AGAIN THEN <<e>> \o evs ELSE evs

(* ------------------------------ history ------------------------------- *)
\* What is remembered about the run for stating properties; no step reads it.
\*   t0       the reading of get_time that start() took as clock_time
\*   updates  calls of the Sprite.update Binder since start(), up to MaxNow
\*   agains   HANDLE_AGAIN results of Clock.update since start()
\*   lastRet  what Clock.update returned last since start()
\*   again0   nagain at the last poll
\*   fed      the wall-clock deltas fed to Clock.update when it is called directly
\*   granted  for each delta fed, the HANDLE_AGAIN results it led to
\*   hits     invocations of each decorated function since the last poll
\*   unbinds  calls of Manager.unbind made, and the arguments of the last one
\*   idle     direct calls of Clock.update made before start()
\*   swaps    calls of Clock.bufswap that returned since start()
\*   list0    the handler list of the event's type when its pass began
\*   unbound  the handlers unbound from that type during the pass
HistInit(t) ==
    [ t0 |-> t, updates |-> 0, agains |-> 0, lastRet |-> None, again0 |-> 0,
      fed |-> <<>>, granted |-> <<>>, hits |-> [ b \in FunctionBinders |-> 0 ],
      unbinds |-> 0, unbindArgs |-> << "-", "-" >>, swaps |-> 0, list0 |-> <<>>,
      unbound |-> {}, idle |-> 0 ]

\* no method_call is running target by target
NoCall == [ b |-> "-", list |-> <<>>, idx |-> 1, calls |-> <<>> ]

(* ------------------------------- Init --------------------------------- *)
\* The state after "import gunge" and gunge.init(): Manager.__init__ has bound
\* on_quit, the decorators have bound the six Binders in import order (clock,
\* display, sprite), and the Display and Clock objects have been constructed.
Init ==
    /\ handlers = bind(bind(bind(bind(bind(bind(bind(<<>>,
                      on_quit, QUIT),
                      "Clock.update", UPDATE), "Clock.bufswap", BUFSWAP),
                      "Display.render", RENDER), "Display.buffer_swap", BUFSWAP),
                      "Sprite.update", UPDATE), "Sprite.render", RENDER)
    /\ keeprunning = FALSE
    /\ events = <<>>
    /\ event = NoEvent
    /\ hidx = 1
    /\ a = None
    /\ pc = "setup"
    /\ err = ""
    /\ instances = [ b \in MethodBinders \cup UserMethodBinders |->
                       IF b \in BindersOf("display") THEN <<"display">>
                       ELSE IF b \in BindersOf("clock") THEN <<"clock">>
                       ELSE <<>> ]
    /\ alive = {"display", "clock"}
    /\ clock = ClockInit
    /\ now = 0
    /\ iter = 0
    /\ nagain = 0
    /\ nbinds = 0
    /\ passLog = <<>>
    /\ iterLog = <<>>
    /\ polled = <<>>
    /\ killed = {}
    /\ call = NoCall
    /\ hist = HistInit(0)

(* ------------------- what the program does before mainloop ------------ *)
Referenced(i) == \E b \in DOMAIN instances : \E k \in DOMAIN instances[b] : instances[b][k] = i

\* Sprite(...): Handler.__init__ appends a weak reference to every Binder of
\* the object's bound methods
NewSprite(s) ==
    /\ pc = "setup"
    /\ s \notin alive /\ s \notin killed /\ ~Referenced(s)
    /\ alive' = alive \cup {s}
    /\ instances' = [ b \in DOMAIN instances |->
                        IF b \in BindersOf(s) THEN Append(instances[b], s)
                        ELSE instances[b] ]
    /\ UNCHANGED << handlers, keeprunning, events, event, hidx, a, pc, err, clock,
                    now, iter, nagain, nbinds, passLog, iterLog, polled, killed, hist,
                    call >>

\* the last strong reference to a sprite goes away: its weak references die
DropRef(s) ==
    /\ pc = "setup"
    /\ s \in alive
    /\ alive' = alive \ {s}
    /\ UNCHANGED << handlers, keeprunning, events, event, hidx, a, pc, err, instances,
                    clock, now, iter, nagain, nbinds, passLog, iterLog, polled, killed,
                    hist, call >>

\* Handler.kill
Kill(i) ==
    /\ pc = "setup"
    /\ i \in alive
    /\ instances' = [ b \in DOMAIN instances |->
                        IF b \in BindersOf(i) THEN Revoke(instances[b], i)
                        ELSE instances[b] ]
    /\ killed' = killed \cup {i}
    /\ UNCHANGED << handlers, keeprunning, events, event, hidx, a, pc, err, alive,
                    clock, now, iter, nagain, nbinds, passLog, iterLog, polled, hist,
                    call >>

\* Clock.start; the program starts its clock once. Only differences of readings
\* matter, so the first reading of get_time is the current one.
Start ==
    /\ pc = "setup"
    /\ "clock" \in alive
    /\ ~clock.started
    /\ \E d \in 0 .. MaxDelta :
          /\ clock' = start(clock, now, now + d)
          /\ now' = now + d
          /\ hist' = HistInit(now)
    /\ UNCHANGED << handlers, keeprunning, events, event, hidx, a, pc, err, instances,
                    alive, iter, nagain, nbinds, passLog, iterLog, polled, killed,
                    call >>

\* Manager.bind(f, event_type) of a plain callable
Bind(f, t) ==
    /\ pc = "setup"
    /\ nbinds < MaxBinds
    /\ handlers' = bind(handlers, f, t)
    /\ nbinds' = nbinds + 1
    /\ UNCHANGED << keeprunning, events, event, hidx, a, pc, err, instances, alive,
                    clock, now, iter, nagain, passLog, iterLog, polled, killed, hist,
                    call >>

\* the types the program binds to and unbinds from when it changes the
\* registry while it runs, and the handlers it unbinds
RegTypes == {QUIT, USEREVENT}
Unbindable == RawCallbacks \cup {on_quit}

\* Manager.unbind(h, event_type) called by the program, which does not catch
\* what it raises
Unbind(h, t) ==
    /\ pc = "setup"
    /\ handlers' = unbind(handlers, h, t).handlers
    /\ err' = unbind(handlers, h, t).err
    /\ pc' = IF unbind(handlers, h, t).err = "" THEN pc ELSE "crashed"
    /\ hist' = [ hist EXCEPT !.unbinds = @ + 1, !.unbindArgs = << h, t >> ]
    /\ UNCHANGED << keeprunning, events, event, hidx, a, instances, alive, clock, now,
                    iter, nagain, nbinds, passLog, iterLog, polled, killed, call >>

Registered(h, t) == \E k \in DOMAIN HandlerList(handlers, t) : handlers[t][k] = h

\* @gunge.event.bind(type, filter) on a function or method of the program: the
\* decorator makes the Binder and binds it; it runs once, when the definition
\* is executed
Decorate(b) ==
    /\ pc = "setup"
    /\ ~Registered(b, BinderType(b))
    /\ handlers' = bind(handlers, b, BinderType(b))
    /\ UNCHANGED << keeprunning, events, event, hidx, a, pc, err, instances, alive,
                    clock, now, iter, nagain, nbinds, passLog, iterLog, polled, killed,
                    hist, call >>

\* the program's module is executed from the top: its k-th decorated function
Define(k) ==
    /\ \A j \in 1 .. k - 1 : Registered(UserModule[j], BinderType(UserModule[j]))
    /\ Decorate(UserModule[k])

\* Mob(...), once the class is defined: Handler.__init__ as for a Sprite
NewMob(m) ==
    /\ \A b \in BindersOf(m) : Registered(b, BinderType(b))
    /\ NewSprite(m)

\* Manager.bind of the one plain callable a program binds
BindOnce(f, t) ==
    /\ nbinds = 0
    /\ Bind(f, t)

(* ------------------------------ mainloop ------------------------------ *)
\* line 58: the program calls mainloop (again, once it has returned)
Mainloop ==
    /\ pc = "setup"
    /\ iter < MaxIter
    /\ keeprunning' = TRUE
    /\ pc' = "loop"
    /\ passLog' = <<>>
    /\ UNCHANGED << handlers, events, event, hidx, a, err, instances, alive, clock,
                    now, iter, nagain, nbinds, iterLog, polled, killed, hist,
                    call >>

\* the ids 1..n tell the polled events apart, as object identity does
Batch(ext) == [ k \in 1 .. Len(ext) |-> Event(ext[k].type, ext[k].attrs, k) ] \o exit_events

\* lines 59-60: the while test holds, events = pygame.event.get() + exit_events
Poll ==
    /\ pc = "loop"
    /\ keeprunning
    /\ iter < MaxIter
    /\ \E n \in 0 .. MaxExt : \E ext \in [1 .. n -> ExtKinds] :
          /\ events' = Batch(ext)
          /\ polled' = Batch(ext)
    /\ iter' = iter + 1
    /\ iterLog' = <<>>
    /\ hist' = [ hist EXCEPT !.again0 = nagain,
                             !.hits = [ b \in FunctionBinders |-> 0 ] ]
    /\ pc' = "pop"
    /\ UNCHANGED << handlers, keeprunning, event, hidx, a, err, instances, alive,
                    clock, now, nagain, nbinds, passLog, killed, call >>

\* line 59: the while test fails and mainloop returns to the program
Return ==
    /\ pc = "loop"
    /\ ~keeprunning
    /\ pc' = "setup"
    /\ UNCHANGED << handlers, keeprunning, events, event, hidx, a, err, instances,
                    alive, clock, now, iter, nagain, nbinds, passLog, iterLog, polled,
                    killed, hist, call >>

\* lines 61-63: event = events.pop(), and the for loop starts on its handlers
Pop ==
    /\ pc = "pop"
    /\ Len(events) # 0
    /\ event' = PopEvent(events)
    /\ events' = PopRest(events)
    /\ hidx' = 1
    /\ passLog' = <<>>
    /\ iterLog' = IF Len(iterLog) < MaxLog THEN Append(iterLog, PopEvent(events))
                   ELSE iterLog
    /\ pc' = "dispatch"
    /\ hist' = [ hist EXCEPT !.list0 = HandlerList(handlers, PopEvent(events).type),
                             !.unbound = {} ]
    /\ UNCHANGED << handlers, keeprunning, a, err, instances, alive, clock, now, iter,
                    nagain, nbinds, polled, killed, call >>

\* line 61: the batch is empty, back to the outer while
BatchDone ==
    /\ pc = "pop"
    /\ Len(events) = 0
    /\ pc' = "loop"
    /\ UNCHANGED << handlers, keeprunning, events, event, hidx, a, err, instances,
                    alive, clock, now, iter, nagain, nbinds, passLog, iterLog, polled,
                    killed, hist, call >>

CurList == HandlerList(handlers, event.type)

\* line 63: the for loop has run off the end of the handler list
EndFor ==
    /\ pc = "dispatch"
    /\ hidx > Len(CurList)
    /\ pc' = "pop"
    /\ UNCHANGED << handlers, keeprunning, events, event, hidx, a, err, instances,
                    alive, clock, now, iter, nagain, nbinds, passLog, iterLog, polled,
                    killed, hist, call >>

\* lines 64-68 once handler h has returned ret, its targets' calls logged
Returned(h, calls, ret) ==
    /\ a' = ret
    /\ passLog' = Append(passLog, [ h |-> h, calls |-> calls, a |-> ret ])
    /\ pc' = IF Breaks(ret) THEN "pop" ELSE "dispatch"
    /\ hidx' = IF Breaks(ret) THEN hidx ELSE hidx + 1
    /\ events' = Reinsert(ret, event, events)
    /\ nagain' = IF ret = HANDLE_AGAIN /\ nagain < MaxAgain THEN nagain + 1 ELSE nagain

\* line 64 on Manager.on_quit
CallOnQuit ==
    /\ pc = "dispatch"
    /\ hidx <= Len(CurList)
    /\ CurList[hidx] = on_quit
    /\ keeprunning' = FALSE
    /\ Returned(on_quit, << [ inst |-> "manager", ret |-> None ] >>, None)
    /\ UNCHANGED << handlers, event, err, instances, alive, clock, now, iter, nbinds,
                    iterLog, polled, killed, hist, call >>

\* line 64 on a plain callable, which may return any code
CallRaw ==
    /\ pc = "dispatch"
    /\ hidx <= Len(CurList)
    /\ CurList[hidx] \in RawCallbacks
    /\ \E ret \in Codes :
          /\ ret = HANDLE_AGAIN => nagain < MaxAgain
          /\ Returned(CurList[hidx], << [ inst |-> "-", ret |-> ret ] >>, ret)
    /\ UNCHANGED << handlers, keeprunning, event, err, instances, alive, clock, now,
                    iter, nbinds, iterLog, polled, killed, hist, call >>

\* line 64 on a plain callable that returns HANDLE_AGAIN every time it is called
CallStubborn ==
    /\ pc = "dispatch"
    /\ hidx <= Len(CurList)
    /\ CurList[hidx] \in RawCallbacks
    /\ Returned(CurList[hidx], << [ inst |-> "-", ret |-> HANDLE_AGAIN ] >>, HANDLE_AGAIN)
    /\ UNCHANGED << handlers, keeprunning, event, err, instances, alive, clock, now,
                    iter, nbinds, iterLog, polled, killed, hist, call >>

\* what a plain callable of the program does to the registry when it is
\* called: nothing, manager.bind(g, event.type) or manager.unbind(g, event.type)
Acts == {"pass", "bind", "unbind"}

\* line 64 on a plain callable that acts on the registry and returns None;
\* bind and unbind change the very list the for loop of line 63 is running over
CallActs ==
    /\ pc = "dispatch"
    /\ hidx <= Len(CurList)
    /\ CurList[hidx] \in RawCallbacks
    /\ \E act \in Acts, g \in Unbindable :
          /\ act = "pass" => g = on_quit
          /\ act = "bind" => g \in RawCallbacks /\ nbinds < MaxBinds
          /\ act = "unbind" => Registered(g, event.type)
          /\ handlers' = CASE act = "bind" -> bind(handlers, g, event.type)
                            [] act = "unbind" -> unbind(handlers, g, event.type).handlers
                            [] OTHER -> handlers
          /\ nbinds' = IF act = "bind" THEN nbinds + 1 ELSE nbinds
          /\ hist' = IF act = "unbind"
                     THEN [ hist EXCEPT !.unbinds = @ + 1,
                                        !.unbindArgs = << g, event.type >>,
                                        !.unbound = @ \cup {g} ]
                     ELSE hist
    /\ Returned(CurList[hidx], << [ inst |-> "-", ret |-> None ] >>, None)
    /\ UNCHANGED << keeprunning, event, err, instances, alive, clock, now, iter,
                    iterLog, polled, killed, call >>

(* ----------------------- a Binder as the handler ---------------------- *)
\* (mutant) Clock.bufswap guarded by the started flag as Clock.update is
method_Guarded(b, c, t) ==
    CASE b = "Clock.update" ->
            IF ~c.started
            THEN [ clock |-> c, ret |-> None, err |-> "" ]
            ELSE [ clock |-> update(c, t).clock, ret |-> update(c, t).ret, err |-> "" ]
      [] b = "Clock.bufswap" ->
            IF ~c.started
            THEN [ clock |-> c, ret |-> None, err |-> "" ]
            ELSE IF t - c.since_last_render = 0
            THEN [ clock |-> [ c EXCEPT !.since_last_render = t ], ret |-> None,
                   err |-> "ZeroDivisionError" ]
            ELSE [ clock |-> bufswap(c, t), ret |-> None, err |-> "" ]
      [] OTHER -> [ clock |-> c, ret |-> None, err |-> "" ]

\* self.func(instance(), event) for the method Binder b, on attributes c of the
\* clock and reading t of get_time: the clock afterwards, the value the method
\* returns, and the exception it raises ("" if none)
method(b, c, t) ==
    CASE b = "Clock.update" ->
            IF ~c.started
            THEN [ clock |-> c, ret |-> None, err |-> "" ]
            ELSE [ clock |-> update(c, t).clock, ret |-> update(c, t).ret, err |-> "" ]
      [] b = "Clock.bufswap" ->
            IF ~c.started
            THEN [ clock |-> c, ret |-> None, err |-> "AttributeError" ]
            ELSE IF t - c.since_last_render = 0
            THEN [ clock |-> [ c EXCEPT !.since_last_render = t ], ret |-> None,
                   err |-> "ZeroDivisionError" ]
            ELSE [ clock |-> bufswap(c, t), ret |-> None, err |-> "" ]
      [] OTHER -> [ clock |-> c, ret |-> None, err |-> "" ]

\* the targets method_call invokes: none unless the filter matches
Targets(b) == IF filter_check(b, event) THEN Prune(instances[b], alive) ELSE <<>>

\* whether this call of b reads get_time and the clock's timing attributes
ReadsTime(b) ==
    /\ b \in BindersOf("clock")
    /\ Targets(b) # <<>>
    /\ clock.started

\* the outcome of Binder b called on the current event when get_time has
\* advanced by d since its last reading
Outcome(b, d) ==
    IF Targets(b) # <<>> THEN method(b, clock, now + d)
    ELSE [ clock |-> clock, ret |-> None, err |-> "" ]

HistAfter(b, r) ==
    IF b = "Clock.update" /\ Targets(b) # <<>> /\ clock.started
    THEN [ hist EXCEPT !.lastRet = r.ret,
                       !.agains = IF r.ret = HANDLE_AGAIN THEN @ + 1 ELSE @ ]
    ELSE IF b = "Sprite.update" /\ clock.started
    THEN [ hist EXCEPT !.updates = IF @ < MaxNow THEN @ + 1 ELSE @ ]
    ELSE IF b = "Clock.bufswap" /\ Targets(b) # <<>> /\ r.err = ""
    THEN [ hist EXCEPT !.swaps = @ + 1 ]
    ELSE hist

\* line 64 on a Binder: Binder.__call__, then method_call
CallBinder ==
    /\ pc = "dispatch"
    /\ hidx <= Len(CurList)
    /\ CurList[hidx] \in MethodBinders
    /\ LET b == CurList[hidx] IN
       \E d \in 0 .. MaxDelta :
          /\ now + d <= MaxNow
          /\ ~ReadsTime(b) => d = 0
          /\ Outcome(b, d).err = ""
          /\ clock' = Outcome(b, d).clock
          /\ now' = now + d
          /\ instances' = IF filter_check(b, event)
                          THEN [ instances EXCEPT ![b] = Targets(b) ]
                          ELSE instances
          /\ hist' = HistAfter(b, Outcome(b, d))
          /\ Returned(b,
                      [ k \in 1 .. Len(Targets(b)) |->
                          [ inst |-> Targets(b)[k], ret |-> Outcome(b, d).ret ] ],
                      BinderReturn(Outcome(b, d).ret))
    /\ UNCHANGED << handlers, keeprunning, event, err, alive, iter, nbinds, iterLog,
                    polled, killed, call >>

\* line 64 on a Binder whose method raises: the exception leaves mainloop
CallBinderRaises ==
    /\ pc = "dispatch"
    /\ hidx <= Len(CurList)
    /\ CurList[hidx] \in MethodBinders
    /\ LET b == CurList[hidx] IN
       \E d \in 0 .. MaxDelta :
          /\ now + d <= MaxNow
          /\ ~ReadsTime(b) => d = 0
          /\ Outcome(b, d).err # ""
          /\ clock' = Outcome(b, d).clock
          /\ now' = now + d
          /\ instances' = [ instances EXCEPT ![b] = Targets(b) ]
          /\ err' = Outcome(b, d).err
          /\ pc' = "crashed"
    /\ UNCHANGED << handlers, keeprunning, events, event, hidx, a, alive, iter, nagain,
                    nbinds, passLog, iterLog, polled, killed, hist, call >>

\* line 64 on the Binder of a function: Binder.__call__, then function_call
\* (lines 124-126); what the function returns is dropped
CallFunction ==
    /\ pc = "dispatch"
    /\ hidx <= Len(CurList)
    /\ CurList[hidx] \in FunctionBinders
    /\ LET b == CurList[hidx]
           calls == IF filter_check(b, event)
                    THEN << [ inst |-> "-", ret |-> None ] >>
                    ELSE <<>>
       IN  /\ hist' = [ hist EXCEPT !.hits[b] = @ + Len(calls) ]
           /\ Returned(b, calls, BinderReturn(None))
    /\ UNCHANGED << handlers, keeprunning, event, err, instances, alive, clock, now,
                    iter, nbinds, iterLog, polled, killed, call >>

(* ------------- method_call run target by target (lines 119-122) ------- *)
\* Mob.update returns nothing; what its body does to another object o:
\* nothing, o.kill(), or dropping the last strong reference to o
Effects == {"pass", "kill", "drop"}

\* lines 119-120: the filter is checked, the dead references are pruned and
\* the for loop starts on the list just assigned to self.instances
EnterMethodCall ==
    /\ pc = "dispatch"
    /\ hidx <= Len(CurList)
    /\ CurList[hidx] \in UserMethodBinders
    /\ LET b == CurList[hidx] IN
          /\ instances' = IF filter_check(b, event)
                          THEN [ instances EXCEPT ![b] = Targets(b) ]
                          ELSE instances
          /\ call' = [ b |-> b, list |-> Targets(b), idx |-> 1, calls |-> <<>> ]
    /\ pc' = "method_call"
    /\ UNCHANGED << handlers, keeprunning, events, event, hidx, a, err, alive, clock,
                    now, iter, nagain, nbinds, passLog, iterLog, polled, killed, hist >>

\* instance(): the owner a weak reference gives, None once the owner is gone
Deref(ref) == IF ref \in alive THEN ref ELSE NoOwner

\* line 122 on a live owner: self.func(instance(), event), whose body acts on
\* another object o. kill() assigns new lists to the Binders (line 148) and
\* leaves the list the for loop is running over as it is.
InvokeTarget ==
    /\ pc = "method_call"
    /\ call.idx <= Len(call.list)
    /\ Deref(call.list[call.idx]) # NoOwner
    /\ LET self == call.list[call.idx] IN
       \E eff \in Effects, o \in Mobs \ {self} :
          /\ eff # "pass" => o \in alive
          /\ eff = "pass" => o = CHOOSE x \in Mobs \ {self} : TRUE
          /\ alive' = IF eff = "drop" THEN alive \ {o} ELSE alive
          /\ killed' = IF eff = "kill" THEN killed \cup {o} ELSE killed
          /\ instances' = IF eff = "kill"
                          THEN [ b \in DOMAIN instances |->
                                   IF b \in BindersOf(o) THEN Revoke(instances[b], o)
                                   ELSE instances[b] ]
                          ELSE instances
          /\ call' = [ call EXCEPT
                         !.idx = @ + 1,
                         !.calls = Append(@, [ inst |-> self, ret |-> None,
                                               owner |-> self,
                                               revoked |-> self \in killed ]) ]
    /\ UNCHANGED << handlers, keeprunning, events, event, hidx, a, pc, err, clock, now,
                    iter, nagain, nbinds, passLog, iterLog, polled, hist >>

\* line 122 on a reference that died since line 120: the method is called
\* with None as self, and fails on its first use of self
InvokeDead ==
    /\ pc = "method_call"
    /\ call.idx <= Len(call.list)
    /\ Deref(call.list[call.idx]) = NoOwner
    /\ call' = [ call EXCEPT
                   !.calls = Append(@, [ inst |-> call.list[call.idx], ret |-> None,
                                         owner |-> NoOwner,
                                         revoked |-> call.list[call.idx] \in killed ]) ]
    /\ err' = "AttributeError"
    /\ pc' = "crashed"
    /\ UNCHANGED << handlers, keeprunning, events, event, hidx, a, instances, alive,
                    clock, now, iter, nagain, nbinds, passLog, iterLog, polled, killed,
                    hist >>

\* the for loop of method_call is exhausted: the Binder returns to mainloop
ExitMethodCall ==
    /\ pc = "method_call"
    /\ call.idx > Len(call.list)
    /\ Returned(call.b,
                [ k \in DOMAIN call.calls |->
                    [ inst |-> call.calls[k].inst, ret |-> call.calls[k].ret ] ],
                BinderReturn(None))
    /\ UNCHANGED << handlers, keeprunning, event, err, instances, alive, clock, now,
                    iter, nbinds, iterLog, polled, killed, hist, call >>

(* ------------------- Clock.update called directly --------------------- *)
\* the history after Clock.update returned ret: for a new delta d, or for the
\* delta fed last when the call is repeated
Fed(d, ret) ==
    [ hist EXCEPT !.lastRet = ret,
                  !.agains = IF ret = HANDLE_AGAIN THEN @ + 1 ELSE @,
                  !.fed = Append(@, d),
                  !.granted = Append(@, IF ret = HANDLE_AGAIN THEN 1 ELSE 0) ]

Again(ret) ==
    [ hist EXCEPT !.lastRet = ret,
                  !.agains = IF ret = HANDLE_AGAIN THEN @ + 1 ELSE @,
                  !.granted = [ @ EXCEPT ![Len(@)] = IF ret = HANDLE_AGAIN THEN @ + 1 ELSE @ ] ]

\* clock.update(event) once the wall clock has advanced by d
Feed(d) ==
    /\ pc = "setup"
    /\ clock.started
    /\ hist.lastRet # HANDLE_AGAIN
    /\ Len(hist.fed) < MaxDeltas
    /\ clock' = update(clock, now + d).clock
    /\ now' = now + d
    /\ hist' = Fed(d, update(clock, now + d).ret)
    /\ UNCHANGED << handlers, keeprunning, events, event, hidx, a, pc, err, instances,
                    alive, iter, nagain, nbinds, passLog, iterLog, polled, killed,
                    call >>

\* clock.update(event) called again at once because it returned HANDLE_AGAIN
ReInvoke ==
    /\ pc = "setup"
    /\ clock.started
    /\ hist.lastRet = HANDLE_AGAIN
    /\ clock' = update(clock, now).clock
    /\ hist' = Again(update(clock, now).ret)
    /\ UNCHANGED << handlers, keeprunning, events, event, hidx, a, pc, err, instances,
                    alive, now, iter, nagain, nbinds, passLog, iterLog, polled, killed,
                    call >>

\* clock.update(event) before start(): it returns at its first test, before
\* get_time is read
UpdateUnstarted ==
    /\ pc = "setup"
    /\ ~clock.started
    /\ hist.idle < MaxDeltas
    /\ clock' = method("Clock.update", clock, now).clock
    /\ hist' = [ hist EXCEPT !.idle = @ + 1,
                             !.lastRet = method("Clock.update", clock, now).ret ]
    /\ UNCHANGED << handlers, keeprunning, events, event, hidx, a, pc, err, instances,
                    alive, now, iter, nagain, nbinds, passLog, iterLog, polled, killed,
                    call >>

(* ------------------- Clock.bufswap called directly -------------------- *)
\* clock.bufswap(event) once the wall clock has advanced by d: line 89 reads
\* get_time whether or not the clock was started
Swap ==
    /\ pc = "setup"
    /\ hist.swaps < MaxSwaps
    /\ \E d \in 0 .. MaxDelta :
          LET r == method("Clock.bufswap", clock, now + d) IN
          /\ clock' = r.clock
          /\ now' = now + d
          /\ err' = r.err
          /\ pc' = IF r.err = "" THEN pc ELSE "crashed"
          /\ hist' = IF r.err = "" THEN [ hist EXCEPT !.swaps = @ + 1 ] ELSE hist
    /\ UNCHANGED << handlers, keeprunning, events, event, hidx, a, instances, alive,
                    iter, nagain, nbinds, passLog, iterLog, polled, killed, call >>

(* ---------------------------- specifications -------------------------- *)
\* the steps of mainloop
Loop ==
    \/ Poll
    \/ Return
    \/ Pop
    \/ BatchDone
    \/ EndFor
    \/ CallOnQuit
    \/ CallBinder
    \/ CallBinderRaises

\* the dispatcher: a program that binds plain callables, starts the clock and
\* runs mainloop
Next ==
    \/ Start
    \/ \E f \in RawCallbacks, t \in BindTypes : Bind(f, t)
    \/ Mainloop
    \/ CallRaw
    \/ Loop

Spec == Init /\ [][Next]_vars

\* the lifetime of Handler instances: a program that creates, kills and drops
\* sprites, starts the clock and runs mainloop
NextLife ==
    \/ \E s \in Sprites : NewSprite(s)
    \/ \E s \in Sprites : DropRef(s)
    \/ \E s \in Sprites : Kill(s)
    \/ Start
    \/ Mainloop
    \/ Loop

SpecLife == Init /\ [][NextLife]_vars

\* the registry: a program that binds and unbinds plain callables, before
\* mainloop and from the callables while it runs, and starts the clock
NextReg ==
    \/ Start
    \/ \E f \in RawCallbacks, t \in RegTypes : Bind(f, t)
    \/ \E h \in Unbindable, t \in RegTypes : Unbind(h, t)
    \/ Mainloop
    \/ CallActs
    \/ Loop

SpecReg == Init /\ [][NextReg]_vars

\* catching up: a program that binds one plain callable that always returns
\* HANDLE_AGAIN, starts the clock and runs mainloop; mainloop goes on taking
\* its steps and the callable returns
NextStarve ==
    \/ Start
    \/ \E f \in RawCallbacks, t \in BindTypes : BindOnce(f, t)
    \/ Mainloop
    \/ CallStubborn
    \/ Loop

SpecStarve == Init /\ [][NextStarve]_vars /\ WF_vars(Loop) /\ WF_vars(CallStubborn)

\* quitting: a program that binds plain callables to QUIT, starts the clock and
\* runs mainloop. mainloop is one thread of control: once entered it goes on
\* taking its steps, and a callable it calls returns.
NextQuit ==
    \/ Start
    \/ \E f \in RawCallbacks : Bind(f, QUIT)
    \/ Mainloop
    \/ CallRaw
    \/ Loop

SpecQuit == Init /\ [][NextQuit]_vars /\ WF_vars(Loop) /\ WF_vars(CallRaw)

\* filters: a program that defines decorated functions with filters, starts the
\* clock and runs mainloop
NextFilter ==
    \/ \E k \in DOMAIN UserModule : Define(k)
    \/ Start
    \/ Mainloop
    \/ Loop
    \/ CallFunction

SpecFilter == Init /\ [][NextFilter]_vars

\* callbacks that act on other objects: a program that defines the class Mob,
\* creates its instances, starts the clock and runs mainloop
NextReent ==
    \/ \E b \in UserMethodBinders : Decorate(b)
    \/ \E m \in Mobs : NewMob(m)
    \/ Start
    \/ Mainloop
    \/ Loop
    \/ EnterMethodCall
    \/ InvokeTarget
    \/ InvokeDead
    \/ ExitMethodCall

SpecReent == Init /\ [][NextReent]_vars

\* the frame counter alone: start() and a sequence of Clock.bufswap calls
NextFrames ==
    \/ Start
    \/ Swap

SpecFrames == Init /\ [][NextFrames]_vars

\* the clock alone: Clock.update called before start(), start(), then
\* Clock.update fed a sequence of wall-clock deltas and called again without
\* delay whenever it returns HANDLE_AGAIN
NextClock ==
    \/ Start
    \/ UpdateUnstarted
    \/ \E d \in 0 .. MaxFeed : Feed(d)
    \/ ReInvoke

SpecClock == Init /\ [][NextClock]_vars

(* ------------------------------- claims ------------------------------- *)
\* a handler call of the current pass, the handlers called before it, and the
\* instances a call reached
Calls == DOMAIN passLog
CalledInsts(k) == { passLog[k].calls[j].inst : j \in DOMAIN passLog[k].calls }
Reverse(s) == [ k \in 1 .. Len(s) |-> s[Len(s) + 1 - k] ]
Last(s) == s[Len(s)]
Min(x, y) == IF x <= y THEN x ELSE y
Pending(e) == \E k \in DOMAIN events : events[k] = e

\* C1 (as claimed): while the clock is started and Clock.update is the first
\* UPDATE handler, a later UPDATE handler is called for an UPDATE event only if
\* Clock.update returned HANDLE_AGAIN for it (never after its HANDLE_STOP), so
\* the logic updates times tick never exceed the wall time since start().
C1_UpdateGatedByClock ==
    /\ \A k \in Calls :
          ( /\ event.type = UPDATE
            /\ k > 1
            /\ passLog[1].h = "Clock.update"
            /\ passLog[1].calls # <<>> )
          => passLog[1].calls[1].ret = HANDLE_AGAIN
    /\ clock.started => hist.updates * tick <= now - hist.t0

\* C2 (as claimed): a Binder that matched and invoked targets returns to the
\* dispatcher what its last-invoked target returned; one that invoked nothing
\* returns None ("continue").
C2_BinderReturnsLastTarget ==
    \A k \in Calls :
        passLog[k].h \in Binders =>
            IF passLog[k].calls # <<>>
            THEN passLog[k].a = Last(passLog[k].calls).ret
            ELSE passLog[k].a = None

\* C3 (as claimed): once a handler has yielded HANDLE_STOP for an event, no
\* handler registered later is called for it and the event is not in the
\* pending batch again.
C3_StopLeavesEventOut ==
    \A k \in Calls :
        passLog[k].a = HANDLE_STOP => k = Len(passLog) /\ ~Pending(event)

\* the step in which a handler hands HANDLE_STOP to the dispatcher
StopStep == pc = "dispatch" /\ Len(passLog') = Len(passLog) + 1 /\ a' = HANDLE_STOP

\* C3 (amended): a handler's HANDLE_STOP ends the pass (no handler is called
\* after it in that pass) and itself leaves the pending batch as it was.
C3_StopEndsPass ==
    /\ [](\A k \in Calls : passLog[k].a = HANDLE_STOP => k = Len(passLog) /\ pc # "dispatch")
    /\ [][StopStep => pc' = "pop" /\ events' = events /\ hidx' = hidx]_vars

\* C3 witness: a pass ended by HANDLE_STOP with a handler registered later that
\* was not called
C3_Witness ==
    /\ pc = "pop"
    /\ passLog # <<>>
    /\ Last(passLog).a = HANDLE_STOP
    /\ hidx < Len(CurList)
    /\ ~Pending(event)

\* C4 (as claimed): after a pass in which a handler yielded HANDLE_AGAIN, the
\* very next event dispatched is that same event.
C4_AgainDispatchedNext ==
    [][ ( /\ pc = "pop"
          /\ pc' = "dispatch"
          /\ \E k \in Calls : passLog[k].a = HANDLE_AGAIN )
        => event' = event ]_vars

\* C5 (as claimed): no handler is called in a pass after one that yielded
\* HANDLE_AGAIN in that pass.
C5_AgainAbortsPass ==
    \A k \in Calls : passLog[k].a = HANDLE_AGAIN => k = Len(passLog)

\* the step in which a handler hands HANDLE_AGAIN to the dispatcher
AgainStep == pc = "dispatch" /\ Len(passLog') = Len(passLog) + 1 /\ a' = HANDLE_AGAIN

\* C5 (amended): a handler's HANDLE_AGAIN puts the event back at the front of
\* the pending batch and does not end the pass: the for loop goes on to the
\* handler registered next.
C5_AgainContinuesPass ==
    [][ AgainStep => /\ pc' = "dispatch"
                     /\ hidx' = hidx + 1
                     /\ events' = <<event>> \o events ]_vars

\* C5 witness: a handler was called in the pass after one that yielded
\* HANDLE_AGAIN
C5_Witness ==
    \E k \in Calls : passLog[k].a = HANDLE_AGAIN /\ k < Len(passLog) /\ Pending(event)

\* no HANDLE_AGAIN since the last poll; an event that came from the event queue
NoAgainSincePoll == nagain = hist.again0
External(e) == e.type \notin {UPDATE, RENDER, BUFSWAP}

\* C6: the batch is the polled events followed by exit_events, popped from the
\* end: the first pops are the batch in reverse (so the three synthetic events
\* come before every external one), and if no handler returned HANDLE_AGAIN
\* since the poll, every event is dispatched exactly once before the next poll.
C6_BatchIsStack ==
    iter > 0 =>
      /\ Len(polled) >= Len(exit_events)
      /\ SubSeq(polled, Len(polled) - Len(exit_events) + 1, Len(polled)) = exit_events
      /\ \A k \in 1 .. Len(polled) - Len(exit_events) : External(polled[k])
      /\ \A k \in 1 .. Min(Len(iterLog), Len(polled)) : iterLog[k] = Reverse(polled)[k]
      /\ NoAgainSincePoll =>
            /\ Len(iterLog) <= Len(polled)
            /\ events = SubSeq(polled, 1, Len(polled) - Len(iterLog))
            /\ \A j, k \in DOMAIN iterLog :
                  External(iterLog[j]) /\ ~External(iterLog[k]) => k < j
            /\ pc \in {"loop", "setup"} => iterLog = Reverse(polled)

\* C6 witness: a batch with two different external events drained without any
\* HANDLE_AGAIN
C6_Witness ==
    /\ pc = "loop"
    /\ NoAgainSincePoll
    /\ Len(polled) = Len(exit_events) + 2
    /\ polled[1].type # polled[2].type
    /\ iterLog = Reverse(polled)

\* an event of type t was dispatched in this iteration
Dispatched(t) == \E k \in DOMAIN iterLog : iterLog[k].type = t

\* C7 (as claimed): within an iteration UPDATE is dispatched before RENDER (so
\* a RENDER handler reads the interpolation the UPDATE left), and RENDER before
\* BUFSWAP.
C7_UpdateThenRenderThenBufswap ==
    pc = "dispatch" =>
      /\ event.type = RENDER => Dispatched(UPDATE)
      /\ event.type = BUFSWAP => Dispatched(RENDER)

\* 0.04 s and 0.1 s in time units
Delta004 == (4 * Resolution) \div 100
Delta010 == (10 * Resolution) \div 100

\* C8 (as claimed): with tps = 25, once a catch-up has ended (Clock.update
\* returned HANDLE_STOP), every delta equal to tick has granted exactly one
\* tick, the lag is below tick, and of the deltas 0.04, 0.04, 0.1 the third
\* has granted two ticks or more.
C8_OneTickPerTickDelta ==
    hist.lastRet = HANDLE_STOP =>
      /\ \A k \in DOMAIN hist.fed : hist.fed[k] = tick => hist.granted[k] = 1
      /\ hist.fed \in { <<Delta004>>, <<Delta004, Delta004>>,
                        <<Delta004, Delta004, Delta010>> }
            => clock.game_latency < tick
      /\ hist.fed = <<Delta004, Delta004, Delta010>> => hist.granted[3] >= 2

\* C9 (as claimed): whenever Clock.update has returned HANDLE_STOP, the
\* interpolation factor it stored is in [0, 1) (interpolate is kept times tick).
C9_InterpolateBelowOne ==
    hist.lastRet = HANDLE_STOP => 0 <= clock.interpolate /\ clock.interpolate < tick

\* C10: no method of an instance that kill() was called on is invoked; every
\* Binder stays registered, and a Binder that is called invokes exactly the
\* live instances of its class that were not killed.
C10_KilledNotInvoked ==
    /\ \A k \in Calls :
          pc # "setup" /\ passLog[k].h \in MethodBinders =>
              CalledInsts(k) = { i \in alive \ killed : passLog[k].h \in BindersOf(i) }
    /\ \A b \in MethodBinders :
          \E j \in DOMAIN HandlerList(handlers, BinderType(b)) :
              handlers[BinderType(b)][j] = b

\* C10 witness: s1 was killed and is still referenced, and the Sprite.update
\* Binder has invoked s2
C10_Witness ==
    /\ pc # "setup"
    /\ "s1" \in killed
    /\ "s1" \in alive
    /\ \E k \in Calls : passLog[k].h = "Sprite.update" /\ CalledInsts(k) = {"s2"}

\* C11 (as claimed): a Binder never calls its method with an owner that no
\* longer exists (dropped before the dispatch, or dropped by an earlier
\* target's callback during it), and dispatch does not fail on one.
C11_NoDeadOwnerInvoked ==
    /\ \A j \in DOMAIN call.calls : call.calls[j].owner # NoOwner
    /\ call.calls # <<>> => err = ""

\* C19 (as claimed): an instance that kill() was called on by an earlier
\* target's callback, while a Binder is invoking its targets for an event, is
\* not invoked by that Binder for that event.
C19_KillTakesEffectAtOnce ==
    \A j \in DOMAIN call.calls : ~call.calls[j].revoked

\* what each filter of the program is meant to let through
Matches(b, e) ==
    CASE b = "on_key" -> e.attrs["key"] = 1
      [] b = "on_keys" -> e.attrs["key"] \in {2, 3}
      [] b = "on_odd" -> e.attrs["key"] % 2 = 1
      [] b = "on_key_mod" -> e.attrs["key"] = 1 /\ e.attrs["mod"] = 0
      [] OTHER -> TRUE
\* the events the last poll took from the event source
PolledExt == SubSeq(polled, 1, Len(polled) - Len(exit_events))

\* C12: a Binder called with an event of its type invokes its targets if and
\* only if every filter entry holds of the event's attribute (membership for a
\* set, a true result for a function, equality otherwise; an empty filter
\* matches), so that on_key, bound with the filter key = 1, is invoked exactly
\* as often as events with key = 1 were dispatched: once for one matching and
\* one non-matching event.
C12_InvokedIffFilterHolds ==
    /\ \A k \in Calls :
          passLog[k].h \in FunctionBinders =>
              (passLog[k].calls # <<>> <=> Matches(passLog[k].h, event))
    /\ \A k \in Calls :
          pc # "setup" /\ passLog[k].h \in MethodBinders =>
              CalledInsts(k) = { i \in alive : passLog[k].h \in BindersOf(i) }
    /\ ( /\ pc = "loop" /\ iter > 0
         /\ Registered("on_key", USEREVENT)
         /\ Len(PolledExt) = 2
         /\ \E j, k \in 1 .. 2 : /\ PolledExt[j].type = USEREVENT
                                 /\ PolledExt[j].attrs["key"] = 1
                                 /\ PolledExt[k].type = USEREVENT
                                 /\ PolledExt[k].attrs["key"] # 1 )
       => hist.hits["on_key"] = 1

\* C12 witness: a matching and a non-matching event were dispatched to all
\* five decorated functions, and on_key was invoked once
C12_Witness ==
    /\ pc = "loop" /\ iter > 0
    /\ \A b \in FunctionBinders : Registered(b, USEREVENT)
    /\ Len(PolledExt) = 2
    /\ PolledExt[1].type = USEREVENT /\ PolledExt[1].attrs["key"] = 2
    /\ PolledExt[2].type = USEREVENT /\ PolledExt[2].attrs["key"] = 1
    /\ hist.hits["on_key"] = 1
    /\ hist.hits["on_user"] = 2

LookupErrors == {"KeyError", "IndexError"}
\* a step that is a call of Manager.unbind, its arguments, and whether list
\* afterwards is list before without its first x
UnbindStep == hist'.unbinds = hist.unbinds + 1
UnbindHandler == hist'.unbindArgs[1]
UnbindType == hist'.unbindArgs[2]
WithoutFirst(before, after, x) ==
    \E k \in DOMAIN before :
        /\ before[k] = x
        /\ \A j \in 1 .. k - 1 : before[j] # x
        /\ Len(after) = Len(before) - 1
        /\ \A j \in 1 .. k - 1 : after[j] = before[j]
        /\ \A j \in k + 1 .. Len(before) : after[j - 1] = before[j]
UnbindRemoves ==
    /\ err' = ""
    /\ DOMAIN handlers' = DOMAIN handlers
    /\ WithoutFirst(handlers[UnbindType], handlers'[UnbindType], UnbindHandler)
    /\ \A t \in DOMAIN handlers \ {UnbindType} : handlers'[t] = handlers[t]

\* C14 (as claimed): unbind of a handler that is not registered under the type
\* raises a LookupError-class exception and leaves the registry unchanged,
\* whether the type was never bound or has other handlers; unbind of a
\* registered handler removes that registration and nothing else.
C14_UnbindAbsentIsLookupError ==
    [][ UnbindStep =>
          IF ~Registered(UnbindHandler, UnbindType)
          THEN err' \in LookupErrors /\ handlers' = handlers
          ELSE UnbindRemoves ]_vars

\* C14 (amended): unbind of a handler that is not registered raises KeyError
\* when the type was never bound and ValueError (which is not a LookupError)
\* when the type has a handler list; either way the exception reaches the
\* caller and the registry is unchanged. unbind of a registered handler removes
\* its first registration and nothing else.
C14_UnbindAbsentRaises ==
    [][ UnbindStep =>
          IF ~Registered(UnbindHandler, UnbindType)
          THEN /\ err' = IF UnbindType \in DOMAIN handlers
                         THEN "ValueError" ELSE "KeyError"
               /\ pc' = "crashed"
               /\ handlers' = handlers
          ELSE UnbindRemoves ]_vars

\* C14 witness: unbind raised ValueError for a handler that is not registered
\* under a type that has other handlers
C14_Witness ==
    /\ pc = "crashed"
    /\ err = "ValueError"
    /\ hist.unbindArgs[2] = QUIT
    /\ Len(HandlerList(handlers, QUIT)) >= 2
    /\ ~Registered(hist.unbindArgs[1], QUIT)

\* how often x occurs in a list, and how often handler x was called in the pass
Count(list, x) == Cardinality({ k \in DOMAIN list : list[k] = x })
Called(x) == Cardinality({ k \in Calls : passLog[k].h = x })
\* the pass over the event's handlers has run to the end of the list
PassOver == pc = "pop" /\ passLog # <<>> /\ \A k \in Calls : passLog[k].a # HANDLE_STOP

\* C16 (as claimed): when a handler called for an event binds or unbinds a
\* handler of the event's type, every handler that was registered for the type
\* when the pass began, other than those unbound, is still called for the event
\* exactly as often as it was registered: none skipped, none called twice.
C16_RegistryChangeKeepsPass ==
    PassOver =>
        \A k \in DOMAIN hist.list0 :
            hist.list0[k] \notin hist.unbound =>
                Called(hist.list0[k]) = Count(hist.list0, hist.list0[k])

\* how often h is registered under type t in registry r
Registrations(r, h, t) == Count(HandlerList(r, t), h)

\* C17 (as claimed): in every reachable state a handler appears at most once in
\* the handler list of any one event type.
C17_AtMostOncePerType ==
    \A t \in DOMAIN handlers : \A k \in DOMAIN handlers[t] :
        Registrations(handlers, handlers[t][k], t) <= 1

\* C17 (amended): bind does not look for an earlier registration. Every step
\* changes the number of registrations of a handler under a type by one at
\* most, a handler comes to be registered more than once only by a bind on top
\* of a registration it already has, and an unbind of a registered handler
\* takes exactly one of its registrations away.
C17_OncePerBind ==
    [][ /\ handlers' # handlers =>
              \A t \in DOMAIN handlers' :
                 \A h \in { HandlerList(handlers', t)[k] : k \in DOMAIN HandlerList(handlers', t) }
                         \cup { HandlerList(handlers, t)[k] : k \in DOMAIN HandlerList(handlers, t) } :
                    LET n == Registrations(handlers, h, t)
                        m == Registrations(handlers', h, t)
                    IN  /\ m \in {n - 1, n, n + 1}
                        /\ m > 1 => n >= 1
        /\ (UnbindStep /\ Registered(UnbindHandler, UnbindType)) =>
              Registrations(handlers', UnbindHandler, UnbindType)
                 = Registrations(handlers, UnbindHandler, UnbindType) - 1 ]_vars

\* C17 witness: f1 was bound to QUIT twice and unbound once, and is still
\* registered
C17_Witness ==
    /\ nbinds = 2
    /\ hist.unbinds = 1
    /\ hist.unbindArgs = << "f1", QUIT >>
    /\ err = ""
    /\ HandlerList(handlers, QUIT) = << on_quit, "f1" >>
    /\ HandlerList(handlers, USEREVENT) = <<>>

\* C15: after start(), frame_count goes up by one with each BUFSWAP sample,
\* stays within 0..100, and goes back to 0 at the 101st sample of a window (it
\* is 100 after the 100th), the sample after that being the first of a new
\* window.
C15_FrameCountWindow ==
    clock.started =>
        /\ clock.frame_count \in 0 .. 100
        /\ clock.frame_count = hist.swaps % 101
        /\ hist.swaps = 100 => clock.frame_count = 100
        /\ hist.swaps = 101 => clock.frame_count = 0

\* C15 witness: the sample after the 101st is the first of a new window
C15_Witness ==
    /\ clock.started
    /\ hist.swaps = 102
    /\ clock.frame_count = 1

\* C18 (as claimed): whenever events are pending, the batch eventually becomes
\* empty and the loop reaches its next poll or ends, even with a handler that
\* returns HANDLE_AGAIN every time it is called.
C18_AgainCannotStarve ==
    (pc \in {"pop", "dispatch"}) ~> (pc \in {"loop", "setup", "crashed"})

\* C20: once started, after every call of Clock.update the wall time counted
\* less the game time is the latency, the latency is not negative, and the game
\* time is tick times the number of HANDLE_AGAIN results since start(); a call
\* of Clock.update before start() changes no attribute of the clock.
C20_ClockAccounting ==
    /\ [](clock.started =>
            /\ clock.time - clock.game_time = clock.game_latency
            /\ clock.game_latency >= 0
            /\ clock.game_time = tick * hist.agains)
    /\ [][(~clock.started /\ hist'.idle = hist.idle + 1) => clock' = clock]_vars

\* C20 witness: a catch-up of two ticks has ended with some latency left
C20_Witness ==
    /\ clock.started
    /\ hist.lastRet = HANDLE_STOP
    /\ hist.agains >= 2
    /\ clock.game_latency > 0
    /\ clock.game_time = 2 * tick

\* C21: Clock.bufswap is not guarded by the started flag. When mainloop runs
\* before start(), the first event popped is BUFSWAP, its first handler is the
\* Clock.bufswap Binder, and that call fails with AttributeError on the baseline
\* only start() sets: no handler returns, no other event is dispatched and the
\* clock is as __init__ left it.
C21_UnstartedBufswapFails ==
    (~clock.started /\ pc \notin {"setup", "loop"}) =>
        \/ pc = "pop" /\ iterLog = <<>> /\ events = polled
        \/ /\ pc = "dispatch"
           /\ event.type = BUFSWAP /\ hidx = 1 /\ CurList[1] = "Clock.bufswap"
           /\ passLog = <<>>
        \/ /\ pc = "crashed"
           /\ err = "AttributeError"
           /\ event.type = BUFSWAP /\ hidx = 1
           /\ iterLog = << exit_events[3] >>
           /\ passLog = <<>>
           /\ clock = ClockInit

\* C21 witness: mainloop run before start() has failed on BUFSWAP with an
\* external event and UPDATE and RENDER still pending
C21_Witness ==
    /\ ~clock.started
    /\ pc = "crashed"
    /\ err = "AttributeError"
    /\ event.type = BUFSWAP
    /\ Len(events) = 3
    /\ events[1].type = QUIT

=============================================================================
